---- MODULE Spec2Model ----
(***************************************************************************)
(* State-machine model of the DBSim front end's visual core:               *)
(*   - ThreeBrainVisualization (src/frontend/src/App.jsx, lines 221-732):  *)
(*     the three.js scene, its React effects, the orbit controls and the   *)
(*     requestAnimationFrame loop;                                         *)
(*   - BrainVisualization (src/frontend/src/components/                    *)
(*     BrainVisualization.jsx): the Plotly trace builders and the effect   *)
(*     that redraws the plot.                                              *)
(* The two components share no state; `component` selects the instance a   *)
(* behaviour follows.                                                      *)
(*                                                                         *)
(* Fixed point: zoom distance in 1/100 scene units; electrode positions in *)
(* 1/1000 scene units; amplitude in 1/10 mA; field values and thresholds   *)
(* in 1/100 V/m; target rotation in 1/100 rad (= dragged pixels); current  *)
(* rotation in 1/(100 * RotUnit) rad, which keeps the repeated factor 0.1  *)
(* exact for MaxSmooth smoothing steps.                                    *)
(***************************************************************************)
EXTENDS Integers, Sequences, FiniteSets, TLC

(* ------------------------------ bounds -------------------------------- *)
\* largest |target rotation| the pointer is dragged to, in pixels
MaxTarget == 2
\* number of smoothing steps that move the rotation (each divides by 10)
MaxSmooth == 1

(* ------------------------- program constants -------------------------- *)
ZoomMin == 200
ZoomMax == 1000
InitialZoom == 500
DefaultFrequency == 130
DefaultAmplitude == 20

RotUnit == 10 ^ MaxSmooth

(* -------------------------- environment inputs ------------------------ *)
PointerPositions == {<<0, 0>>, <<1, 2>>}
\* one notch towards the scene and a faster scroll away from it (deltaY)
WheelDeltas == {-500, 800}
InitialSize == <<800, 600>>
Sizes == {InitialSize, <<400, 300>>, <<600, 600>>}
ParamChoices ==
    { [contact |-> 0, frequency |-> 130, amplitude |-> 20],
      [contact |-> 2, frequency |-> 185, amplitude |-> 35] }

NoFrame == [none |-> TRUE]
\* the parameters prop of an instance that no longer exists
NoProps == CHOOSE q \in ParamChoices : q.contact = 0

VARIABLES
    component,      \* "scene" (ThreeBrainVisualization) or "plot" (BrainVisualization)
    phase,          \* "created" (before the first commit), "mounted", "unmounted"
    isLoading,      \* prop isLoading of the current render
    parameters,     \* prop parameters of the current render
    isInitialized,  \* React state isInitialized of the committed render
    three,          \* refs, closure variables and DOM/browser state the scene component owns
    paramsId,       \* identity of the parameters object (a new object flips it)
    containerSize,  \* clientWidth, clientHeight of the mount container
    simulationData, \* prop simulationData of BrainVisualization
    dataId,         \* identity of the simulationData object
    visualizationMode, showElectrode, fieldThreshold,  \* React state (ViewState)
    plot,           \* plotRef and what the plot DOM node holds
    mapper,         \* calls of calculateElectrodePosition: arguments and results
    fieldCall,      \* the last call of createFieldTrace: arguments, locals, result
    traceCall,      \* a call of createTissueTrace or createElectrodeTrace: argument, result
    app             \* App: simulationState, requests in flight, TutorialMode's state

\* behaviours that follow an instance of ThreeBrainVisualization
SceneInstances == {"scene", "orbit", "smoothing"}

sceneVars == <<parameters, paramsId, isInitialized, three, containerSize>>
plotVars == <<simulationData, dataId, visualizationMode, showElectrode,
              fieldThreshold, plot>>
callVars == <<mapper, fieldCall, traceCall, app>>
vars == <<component, phase, isLoading, sceneVars, plotVars, callVars>>

(* --------------------------- small helpers ---------------------------- *)
Max2(a, b) == IF a >= b THEN a ELSE b
Min2(a, b) == IF a <= b THEN a ELSE b
Abs(a) == IF a < 0 THEN -a ELSE a

\* requestAnimationFrame hands out a fresh id; ids no longer held anywhere are reused
FreshId(w) ==
    CHOOSE i \in 1..(Cardinality(w.rafPending) + 2) :
        /\ i \notin w.rafPending
        /\ i # w.animationFrameRef
        /\ \A j \in 1..(i - 1) : j \in w.rafPending \/ j = w.animationFrameRef

(* ---------------- ThreeBrainVisualization: initial heap ---------------- *)
ThreeInit ==
    [ mountRef |-> FALSE, sceneRef |-> FALSE, rendererRef |-> FALSE,
      cameraRef |-> FALSE, brainRef |-> FALSE,
      animationFrameRef |-> 0, electrodesRef |-> <<>>,
      initQueued |-> FALSE,
      created |-> [scene |-> 0, camera |-> 0, renderer |-> 0, light |-> 0,
                   brain |-> 0, controls |-> 0],
      sceneLights |-> 0, sceneBrains |-> 0, sceneElectrodes |-> <<>>,
      everBuilt |-> FALSE,
      electrodePosition |-> [x |-> 0, y |-> 0, z |-> 0],
      canvasParent |-> "none", canvasListeners |-> {}, resizeListener |-> FALSE,
      cameraZ |-> 0, cameraAspect |-> <<0, 0>>, rendererSize |-> <<0, 0>>,
      isMouseDown |-> FALSE, mouseX |-> 0, mouseY |-> 0,
      targetRotationX |-> 0, targetRotationY |-> 0,
      rotationX |-> 0, rotationY |-> 0, smoothSteps |-> 0,
      brainRotation |-> <<0, 0>>,
      rafPending |-> {}, cancelled |-> 0, cancelCalls |-> 0,
      initCalls |-> 0, cleanupRuns |-> 0, rendererDisposed |-> FALSE,
      buildFlip |-> FALSE, repeatBuild |-> FALSE, countBefore |-> 0,
      frame |-> NoFrame,
      renders |-> 0,        \* render calls of the last run of animate
      pointerDown |-> FALSE, \* the user holds the mouse button down
      webgl |-> TRUE,       \* the browser can create a WebGL context
      uncaught |-> FALSE ]  \* an exception has left the component's code

(* --------------------- calculateElectrodePosition --------------------- *)
\* x || d of JavaScript on numbers: 0 (and NaN) fall back to d
OrDefault(x, d) == IF x = 0 THEN d ELSE x

AnchorDefaultDeepest(contact) ==
    CASE contact = 0 -> [x |-> -800, y |-> -300, z |-> 200]
      [] contact = 1 -> [x |-> -600, y |-> -100, z |-> 300]
      [] contact = 2 -> [x |-> -400, y |-> 100, z |-> 400]
      [] contact = 3 -> [x |-> -200, y |-> 300, z |-> 500]
      [] OTHER -> [x |-> -800, y |-> -300, z |-> 200]

AnchorCollapsed(contact) ==
    CASE contact = 0 -> [x |-> -800, y |-> -300, z |-> 200]
      [] contact = 1 -> [x |-> -600, y |-> -100, z |-> 300]
      [] OTHER -> [x |-> -400, y |-> 100, z |-> 400]

Anchor(contact) ==
    CASE contact = 0 -> [x |-> -800, y |-> -300, z |-> 200]
      [] contact = 1 -> [x |-> -600, y |-> -100, z |-> 300]
      [] contact = 2 -> [x |-> -400, y |-> 100, z |-> 400]
      [] contact = 3 -> [x |-> -200, y |-> 300, z |-> 500]
      [] OTHER -> [x |-> -600, y |-> 0, z |-> 300]

CalculateElectrodePositionCounting(params) ==
    LET a == Anchor(OrDefault(params.contact, 0))
    IN  [ x |-> a.x + (OrDefault(params.frequency, DefaultFrequency) - 130) * 1
                    + (IF mapper.callFlip THEN 1 ELSE 0),
          y |-> a.y + (OrDefault(params.amplitude, DefaultAmplitude) - 20) * 5,
          z |-> a.z ]

CalculateElectrodePositionShifted(params) ==
    LET a == Anchor(OrDefault(params.contact, 0))
    IN  [ x |-> a.x + (OrDefault(params.frequency, DefaultFrequency) - 100) * 1,
          y |-> a.y + (OrDefault(params.amplitude, DefaultAmplitude) - 20) * 5,
          z |-> a.z ]

CalculateElectrodePosition(params) ==
    LET contact == OrDefault(params.contact, 0)
        frequency == OrDefault(params.frequency, DefaultFrequency)
        amplitude == OrDefault(params.amplitude, DefaultAmplitude)
        a == Anchor(contact)
    IN  [ x |-> a.x + (frequency - 130) * 1,
          y |-> a.y + (amplitude - 20) * 5,
          z |-> a.z ]

\* no call yet
NoCall == [none |-> TRUE]
MapperInit ==
    [input |-> NoCall, output |-> NoCall, remembered |-> NoCall, callFlip |-> FALSE]

(* -------------------------- createDBSElectrode ------------------------ *)
CreateDBSElectrodeFirstActive(params) ==
    [ contacts |-> 4, active |-> {0},
      position |-> [x |-> 0, y |-> 0, z |-> 0] ]

CreateDBSElectrode(params) ==
    [ contacts |-> 4,
      active |-> { i \in 0..3 : i = OrDefault(params.contact, 0) },
      position |-> [x |-> 0, y |-> 0, z |-> 0] ]

(* ------------------------------ createElectrodes ---------------------- *)
RECURSIVE RemoveAll(_, _)
\* scene.remove(e) for every e of `gone`: one child per listed object
RemoveOne(children, e) ==
    IF \E i \in 1..Len(children) : children[i] = e
    THEN LET k == CHOOSE i \in 1..Len(children) :
                     children[i] = e /\ \A j \in 1..(i - 1) : children[j] # e
         IN  SubSeq(children, 1, k - 1) \o SubSeq(children, k + 1, Len(children))
    ELSE children
RemoveAll(children, gone) ==
    IF gone = <<>> THEN children
    ELSE RemoveAll(RemoveOne(children, Head(gone)), Tail(gone))

CreateElectrodesNoClear(w, params) ==
    LET position == CalculateElectrodePosition(params)
        electrodeGroup == [CreateDBSElectrode(params) EXCEPT !.position = position]
    IN  [w EXCEPT !.sceneElectrodes = Append(@, electrodeGroup),
                  !.electrodesRef = Append(@, electrodeGroup),
                  !.repeatBuild = (w.electrodesRef # <<>>
                                   /\ w.electrodesRef[Len(w.electrodesRef)] = electrodeGroup),
                  !.countBefore = Len(w.sceneElectrodes),
                  !.everBuilt = TRUE, !.buildFlip = ~@,
                  !.electrodePosition = position]

CreateElectrodesClearOnly(w, params) ==
    [w EXCEPT !.sceneElectrodes = RemoveAll(@, w.electrodesRef),
              !.electrodesRef = <<>>,
              !.repeatBuild = FALSE,
              !.countBefore = Len(w.sceneElectrodes),
              !.everBuilt = TRUE, !.buildFlip = ~@]

CreateElectrodes(w, params) ==
    IF ~w.sceneRef THEN w
    ELSE
    LET cleared == RemoveAll(w.sceneElectrodes, w.electrodesRef)
        position == CalculateElectrodePosition(params)
        electrodeGroup == [CreateDBSElectrode(params) EXCEPT !.position = position]
    IN  [w EXCEPT !.sceneElectrodes = Append(cleared, electrodeGroup),
                  !.electrodesRef = <<electrodeGroup>>,
                  !.repeatBuild = (w.electrodesRef = <<electrodeGroup>>),
                  !.countBefore = Len(w.sceneElectrodes),
                  !.everBuilt = TRUE, !.buildFlip = ~@,
                  !.electrodePosition = position]

(* ------------------------------ initializeScene ----------------------- *)
AddOrbitControls(w) ==
    [w EXCEPT !.isMouseDown = FALSE, !.mouseX = 0, !.mouseY = 0,
              !.targetRotationX = 0, !.targetRotationY = 0,
              !.rotationX = 0, !.rotationY = 0, !.smoothSteps = 0,
              !.canvasListeners = {"mousemove", "mousedown", "mouseup", "wheel"},
              !.created.controls = @ + 1]

CreateBrainModel(w) ==
    [w EXCEPT !.sceneBrains = @ + 1, !.brainRef = TRUE,
              !.brainRotation = <<0, 0>>, !.created.brain = @ + 1]

InitGuardMountOnly(w, isInit) == ~w.mountRef

InitGuard(w, isInit) == ~w.mountRef \/ isInit

\* lines 245-252 have run when new THREE.WebGLRenderer (line 255) throws;
\* initializeScene has no try/catch, the exception leaves it
InitializeSceneUntilRenderer(w, size) ==
    [w EXCEPT !.initCalls = @ + 1,
              !.sceneRef = TRUE, !.created.scene = @ + 1,
              !.sceneLights = 0, !.sceneBrains = 0, !.sceneElectrodes = <<>>,
              !.cameraRef = TRUE, !.created.camera = @ + 1,
              !.cameraAspect = size, !.cameraZ = InitialZoom]

InitializeSceneSwallowing(w, isInit, size) ==
    IF InitGuard(w, isInit) THEN [w EXCEPT !.initCalls = @ + 1]
    ELSE [InitializeSceneUntilRenderer(w, size) EXCEPT !.initQueued = TRUE]

InitializeScene(w, isInit, size) ==
    IF InitGuard(w, isInit) THEN [w EXCEPT !.initCalls = @ + 1]
    ELSE IF ~w.webgl
    THEN [InitializeSceneUntilRenderer(w, size) EXCEPT !.uncaught = TRUE]
    ELSE
    LET w1 == [w EXCEPT !.initCalls = @ + 1,
                        !.sceneRef = TRUE, !.created.scene = @ + 1,
                        !.sceneLights = 0, !.sceneBrains = 0,
                        !.sceneElectrodes = <<>>,
                        !.cameraRef = TRUE, !.created.camera = @ + 1,
                        !.cameraAspect = size, !.cameraZ = InitialZoom,
                        !.rendererRef = TRUE, !.created.renderer = @ + 1,
                        !.rendererSize = size, !.canvasParent = "mount"]
        w2 == [w1 EXCEPT !.sceneLights = @ + 2, !.created.light = @ + 2]
        w3 == AddOrbitControls(CreateBrainModel(w2))
    IN  [w3 EXCEPT !.initQueued = TRUE]

(* ------------------------------ animate ------------------------------- *)
UpdateRotationOvershoot(w) ==
    LET rx == w.rotationX + ((w.targetRotationX * RotUnit - w.rotationX) * 11) \div 10
        ry == w.rotationY + ((w.targetRotationY * RotUnit - w.rotationY) * 11) \div 10
        moved == rx # w.rotationX \/ ry # w.rotationY
    IN  [w EXCEPT !.rotationX = rx, !.rotationY = ry,
                  !.smoothSteps = IF moved THEN @ + 1 ELSE @,
                  !.brainRotation = IF w.brainRef THEN <<rx, ry>> ELSE @]

UpdateRotation(w) ==
    LET rx == w.rotationX + (w.targetRotationX * RotUnit - w.rotationX) \div 10
        ry == w.rotationY + (w.targetRotationY * RotUnit - w.rotationY) \div 10
        moved == rx # w.rotationX \/ ry # w.rotationY
    IN  [w EXCEPT !.rotationX = rx, !.rotationY = ry,
                  !.smoothSteps = IF moved THEN @ + 1 ELSE @,
                  !.brainRotation = IF w.brainRef THEN <<rx, ry>> ELSE @]

\* renderer.render(scene, camera): the frame shows the scene as it is now;
\* `pending` is the number of frame requests outstanding at that moment
Render(w) ==
    [w EXCEPT !.frame = [ electrodes |-> w.sceneElectrodes,
                           afterBuild |-> w.everBuilt,
                           root |-> w.brainRotation,
                           pending |-> Cardinality(w.rafPending) ],
              !.renders = @ + 1]

RequestAnimationFrameUntracked(w) ==
    LET id == FreshId(w)
    IN  [w EXCEPT !.rafPending = @ \cup {id}]

\* animationFrameRef.current = requestAnimationFrame(animate)
RequestAnimationFrame(w) ==
    LET id == FreshId(w)
    IN  [w EXCEPT !.rafPending = @ \cup {id}, !.animationFrameRef = id]

AnimateRenderFirst(w) ==
    IF ~w.rendererRef \/ ~w.sceneRef \/ ~w.cameraRef THEN w
    ELSE RequestAnimationFrame(UpdateRotation(Render([w EXCEPT !.renders = 0])))

Animate(w) ==
    IF ~w.rendererRef \/ ~w.sceneRef \/ ~w.cameraRef THEN w
    ELSE RequestAnimationFrame(Render(UpdateRotation([w EXCEPT !.renders = 0])))

\* the rotation stays exactly representable through the next smoothing step
CanSmooth(w) ==
    \/ w.smoothSteps < MaxSmooth
    \/ /\ w.rotationX = w.targetRotationX * RotUnit
       /\ w.rotationY = w.targetRotationY * RotUnit

(* ------------------------------ effects ------------------------------- *)
CancelAnimationFrameForgotten(w) == w

\* if (animationFrameRef.current) cancelAnimationFrame(animationFrameRef.current)
CancelAnimationFrame(w) ==
    IF w.animationFrameRef # 0
    THEN [w EXCEPT !.cancelCalls = @ + 1,
                   !.cancelled = IF w.animationFrameRef \in w.rafPending
                                 THEN @ + 1 ELSE @,
                   !.rafPending = @ \ {w.animationFrameRef}]
    ELSE w

\* cleanup of the mount effect (lines 631-639)
MountEffectCleanup(w) ==
    LET w1 == [w EXCEPT !.resizeListener = FALSE, !.cleanupRuns = @ + 1]
        w2 == CancelAnimationFrame(w1)
    IN  IF w2.rendererRef /\ w2.mountRef
        THEN [w2 EXCEPT !.canvasParent = "none"]
        ELSE w2

\* body of the mount effect (lines 626-629)
MountEffect(w, isInit, size) ==
    LET w1 == InitializeScene(w, isInit, size)
    IN  IF w1.uncaught THEN w1 ELSE [w1 EXCEPT !.resizeListener = TRUE]

\* cleanup of the animation effect (lines 648-652)
AnimationEffectCleanup(w) == CancelAnimationFrame(w)

AnimationEffectUnguarded(w, isInit) == Animate(w)

\* body of the animation effect (lines 644-646)
AnimationEffect(w, isInit) == IF isInit THEN Animate(w) ELSE w

\* body of the electrode effect (lines 657-659)
ElectrodeEffect(w, isInit, params) ==
    IF isInit THEN CreateElectrodes(w, params) ELSE w

ElectrodeDepsChangedAlways(first, oldInit, newInit, paramsChanged) == TRUE

\* dependency comparison of the electrode effect: [isInitialized, parameters, createElectrodes]
ElectrodeDepsChanged(first, oldInit, newInit, paramsChanged) ==
    first \/ oldInit # newInit \/ paramsChanged

\* dependency comparison of the mount and animation effects:
\* [initializeScene, handleResize] and [isInitialized, animate]
InitDepsChanged(first, oldInit, newInit) == first \/ oldInit # newInit

\* One React commit of the component.  Both return statements (lines 662-679 and
\* 681-729) render a <div> whose first child is a <div>, so React keeps the same
\* DOM node across the loading switch and only attaches or detaches mountRef.
\* After the refs, the clean-ups of the effects whose dependencies changed run,
\* then those effects run, in declaration order; an exception thrown by an
\* effect ends the effects of the component.
Commit(w, first, oldInit, newInit, loading, paramsChanged, params, size) ==
    LET w0 == [w EXCEPT !.initQueued = FALSE, !.mountRef = ~loading]
        d12 == InitDepsChanged(first, oldInit, newInit)
        d3 == ElectrodeDepsChanged(first, oldInit, newInit, paramsChanged)
        c1 == IF d12 /\ ~first THEN MountEffectCleanup(w0) ELSE w0
        c2 == IF d12 /\ ~first THEN AnimationEffectCleanup(c1) ELSE c1
        e1 == IF d12 THEN MountEffect(c2, newInit, size) ELSE c2
        e2 == IF d12 THEN AnimationEffect(e1, newInit) ELSE e1
        e3 == IF d3 THEN ElectrodeEffect(e2, newInit, params) ELSE e2
    IN  IF e1.uncaught THEN e1 ELSE e3

\* an exception out of an effect with no error boundary above: React unmounts
\* the tree; the effect that threw registered no clean-up, the others never ran
UnmountAfterError(w) == [w EXCEPT !.mountRef = FALSE]

\* unmount: host refs are detached, then every effect's clean-up runs
UnmountCleanup(w) ==
    AnimationEffectCleanup(MountEffectCleanup([w EXCEPT !.mountRef = FALSE]))

(* ------------------------------ handlers ------------------------------ *)
OnMouseMoveDirect(w, clientX, clientY) ==
    IF ~w.isMouseDown THEN w
    ELSE LET ty == w.targetRotationY + (clientX - w.mouseX)
             tx == w.targetRotationX + (clientY - w.mouseY)
         IN  [w EXCEPT !.targetRotationY = ty, !.targetRotationX = tx,
                       !.rotationX = tx * RotUnit, !.rotationY = ty * RotUnit,
                       !.brainRotation = <<tx * RotUnit, ty * RotUnit>>,
                       !.mouseX = clientX, !.mouseY = clientY]

OnMouseMoveHandler(w, clientX, clientY) ==
    IF ~w.isMouseDown THEN w
    ELSE [w EXCEPT !.targetRotationY = @ + (clientX - w.mouseX),
                   !.targetRotationX = @ + (clientY - w.mouseY),
                   !.mouseX = clientX, !.mouseY = clientY]

OnMouseDownHandler(w, clientX, clientY) ==
    [w EXCEPT !.isMouseDown = TRUE, !.mouseX = clientX, !.mouseY = clientY]

OnMouseUpHandler(w) == [w EXCEPT !.isMouseDown = FALSE]

OnWheelNoClamp(w, deltaY) ==
    [w EXCEPT !.cameraZ = w.cameraZ + deltaY]

OnWheelHandler(w, deltaY) ==
    [w EXCEPT !.cameraZ = Max2(ZoomMin, Min2(ZoomMax, w.cameraZ + deltaY))]

HandleResizeAspectOnly(w, size) ==
    IF ~w.mountRef \/ ~w.rendererRef \/ ~w.cameraRef THEN w
    ELSE [w EXCEPT !.cameraAspect = size]

HandleResizeHandler(w, size) ==
    IF ~w.mountRef \/ ~w.rendererRef \/ ~w.cameraRef THEN w
    ELSE [w EXCEPT !.cameraAspect = size, !.rendererSize = size]


(* ===================== BrainVisualization (Plotly) ===================== *)
Null == [null |-> TRUE]
Undefined == [kind |-> "undefined"]
Arr(v) == [kind |-> "array", v |-> v]
Num(v) == [kind |-> "number", v |-> v]
\* an exception thrown inside a try block
Thrown == [thrown |-> TRUE]
\* catch (error) { console.error(...); return null; }
CatchNull(r) == IF r = Thrown THEN Null ELSE r
\* !x of JavaScript for a field that is undefined or an array (arrays are truthy)
Falsy(x) == x.kind = "undefined"

RECURSIVE Concat(_)
Concat(ss) == IF ss = <<>> THEN <<>> ELSE Head(ss) \o Concat(Tail(ss))
FlatFirstPlane(t) == IF t = <<>> THEN <<>> ELSE Concat(Head(t))

\* Array.prototype.flat(3) on a tensor nested three deep
Flat3(t) == Concat(Concat(t))

RECURSIVE SeqMax(_)
SeqMax(xs) ==
    IF Len(xs) = 1 THEN xs[1] ELSE Max2(Head(xs), SeqMax(Tail(xs)))
\* Math.max(...xs): -Infinity for no arguments
MathMax(xs) ==
    IF xs = <<>> THEN [finite |-> FALSE, v |-> -1]
    ELSE [finite |-> TRUE, v |-> SeqMax(xs)]

SurfaceCount == 5
TissueOpacity == 30

CreateTissueTraceNoDepthCheck(tissueData) ==
    IF \/ Falsy(tissueData.x_coords) \/ Falsy(tissueData.y_coords)
       \/ Falsy(tissueData.tissue_type)
    THEN Null
    ELSE [ type |-> "isosurface", value |-> tissueData.tissue_type.v,
           isomin |-> 50, isomax |-> 250, count |-> 3,
           opacity |-> TissueOpacity, name |-> "Brain Tissue" ]

\* try block of createTissueTrace (lines 113-135): destructuring and property
\* reads of an object cannot throw
CreateTissueTraceTry(tissueData) ==
    IF \/ Falsy(tissueData.x_coords) \/ Falsy(tissueData.y_coords)
       \/ Falsy(tissueData.z_coords) \/ Falsy(tissueData.tissue_type)
    THEN Null
    ELSE [ type |-> "isosurface", value |-> tissueData.tissue_type.v,
           isomin |-> 50, isomax |-> 250, count |-> 3,
           opacity |-> TissueOpacity, name |-> "Brain Tissue" ]

\* createTissueTrace (lines 111-140)
CreateTissueTrace(tissueData) == CatchNull(CreateTissueTraceTry(tissueData))

CreateFieldTraceThresholdDetail(fieldData, threshold) ==
    IF Falsy(fieldData.field_magnitude) THEN Null
    ELSE IF fieldData.field_magnitude.kind # "array" THEN Thrown
    ELSE IF Len(fieldData.field_magnitude.v) = 0 THEN Null
    ELSE LET maxField == MathMax(Flat3(fieldData.field_magnitude.v))
         IN  IF maxField.finite /\ maxField.v = 0 THEN Null
             ELSE [ type |-> "volume", value |-> fieldData.field_magnitude.v,
                    isomin |-> threshold, isomax |-> maxField,
                    surface_count |-> IF threshold >= 100 THEN SurfaceCount + 1
                                      ELSE SurfaceCount,
                    name |-> "Electric Field" ]

\* try block of createFieldTrace (lines 144-179); a field_magnitude that is
\* a number has no length and no flat(): the call at line 149 throws
CreateFieldTraceTry(fieldData, threshold) ==
    IF Falsy(fieldData.field_magnitude) THEN Null
    ELSE IF fieldData.field_magnitude.kind # "array" THEN Thrown
    ELSE IF Len(fieldData.field_magnitude.v) = 0 THEN Null
    ELSE LET flatField == Flat3(fieldData.field_magnitude.v)
             maxField == MathMax(flatField)
         IN  IF maxField.finite /\ maxField.v = 0 THEN Null
             ELSE [ type |-> "volume", value |-> fieldData.field_magnitude.v,
                    isomin |-> threshold, isomax |-> maxField,
                    surface_count |-> SurfaceCount, name |-> "Electric Field" ]

CreateFieldTraceNoZeroCheck(fieldData, threshold) ==
    IF Falsy(fieldData.field_magnitude) THEN Null
    ELSE IF fieldData.field_magnitude.kind # "array" THEN Null
    ELSE IF Len(fieldData.field_magnitude.v) = 0 THEN Null
    ELSE [ type |-> "volume", value |-> fieldData.field_magnitude.v,
           isomin |-> threshold,
           isomax |-> MathMax(Flat3(fieldData.field_magnitude.v)),
           surface_count |-> SurfaceCount, name |-> "Electric Field" ]

CreateFieldTraceUncaught(fieldData, threshold) ==
    CreateFieldTraceTry(fieldData, threshold)

\* createFieldTrace (lines 142-184)
CreateFieldTrace(fieldData, threshold) ==
    CatchNull(CreateFieldTraceTry(fieldData, threshold))

CreateElectrodeTraceUniform(electrodeData) ==
    IF Falsy(electrodeData.contacts) THEN Null
    ELSE IF Len(electrodeData.contacts.v) = 0 THEN Null
    ELSE LET contacts == electrodeData.contacts.v
         IN  IF \E i \in 1..Len(contacts) : Falsy(contacts[i].position)
             THEN Thrown
             ELSE [ type |-> "scatter3d",
                    x |-> [i \in 1..Len(contacts) |-> contacts[i].position.v[1]],
                    y |-> [i \in 1..Len(contacts) |-> contacts[i].position.v[2]],
                    z |-> [i \in 1..Len(contacts) |-> contacts[i].position.v[3]],
                    color |-> [i \in 1..Len(contacts) |-> "#ff0000"],
                    size |-> [i \in 1..Len(contacts) |-> 12],
                    name |-> "DBS Electrode" ]

\* try block of createElectrodeTrace (lines 188-224); reading position[0] of a
\* contact without a position throws
CreateElectrodeTraceTry(electrodeData) ==
    IF Falsy(electrodeData.contacts) THEN Null
    ELSE IF Len(electrodeData.contacts.v) = 0 THEN Null
    ELSE LET contacts == electrodeData.contacts.v
         IN  IF \E i \in 1..Len(contacts) : Falsy(contacts[i].position)
             THEN Thrown
             ELSE [ type |-> "scatter3d",
                    x |-> [i \in 1..Len(contacts) |-> contacts[i].position.v[1]],
                    y |-> [i \in 1..Len(contacts) |-> contacts[i].position.v[2]],
                    z |-> [i \in 1..Len(contacts) |-> contacts[i].position.v[3]],
                    color |-> [i \in 1..Len(contacts) |->
                                 IF contacts[i].is_active THEN "#ff0000" ELSE "#888888"],
                    size |-> [i \in 1..Len(contacts) |->
                                 IF contacts[i].is_active THEN 12 ELSE 8],
                    name |-> "DBS Electrode" ]

CreateElectrodeTraceUncaught(electrodeData) ==
    CreateElectrodeTraceTry(electrodeData)

\* createElectrodeTrace (lines 186-229)
CreateElectrodeTrace(electrodeData) ==
    CatchNull(CreateElectrodeTraceTry(electrodeData))

\* const t = builder(...); if (t) traces.push(t); an exception leaving the
\* builder leaves the try block of renderVisualization.  `invoked` lists the
\* builders called so far.
PushIf(b, builder, t) ==
    IF b.threw THEN b
    ELSE LET c == [b EXCEPT !.invoked = Append(@, builder)]
         IN  IF t = Thrown THEN [c EXCEPT !.threw = TRUE, !.traces = <<>>]
             ELSE IF t = Null THEN c
             ELSE [c EXCEPT !.traces = Append(@, t)]

DefaultCamera == [eye |-> <<150, 150, 150>>, center |-> <<0, 0, 0>>]

BuildTracesElectrodeAlways(data, mode, showEl, threshold) ==
    LET t0 == [threw |-> FALSE, traces |-> <<>>, invoked |-> <<>>]
        t1 == IF mode = "tissue" \/ mode = "combined"
              THEN PushIf(t0, "tissue", CreateTissueTrace(data.tissue_data))
              ELSE t0
        t2 == IF mode = "field" \/ mode = "combined"
              THEN PushIf(t1, "field", CreateFieldTrace(data.field_data, threshold))
              ELSE t1
        t3 == IF data.electrode_data # Null
              THEN PushIf(t2, "electrode", CreateElectrodeTrace(data.electrode_data))
              ELSE t2
    IN  t3

\* traces built by lines 27-45
BuildTraces(data, mode, showEl, threshold) ==
    LET t0 == [threw |-> FALSE, traces |-> <<>>, invoked |-> <<>>]
        t1 == IF mode = "tissue" \/ mode = "combined"
              THEN PushIf(t0, "tissue", CreateTissueTrace(data.tissue_data))
              ELSE t0
        t2 == IF mode = "field" \/ mode = "combined"
              THEN PushIf(t1, "field", CreateFieldTrace(data.field_data, threshold))
              ELSE t1
        t3 == IF showEl /\ data.electrode_data # Null
              THEN PushIf(t2, "electrode", CreateElectrodeTrace(data.electrode_data))
              ELSE t2
    IN  t3

\* the early return of lines 22-25
MissingDataGuard(data) == data.field_data = Null \/ data.tissue_data = Null

\* Plotly.newPlot(plotRef.current, traces, layout, config): purges the node and
\* draws `traces` with the layout's camera (lines 71-74)
NewPlot(node, traces) ==
    [node EXCEPT !.outcome = "plotted", !.content = "plot",
                 !.repeatRender = (node.content = "plot" /\ node.traces = traces),
                 !.countBefore = Len(node.traces),
                 !.traces = traces,
                 !.camera = DefaultCamera,
                 !.renderFlip = ~@]

\* renderVisualization (lines 16-109) on the plot node: what the node shows afterwards
RenderVisualization(node, data, mode, showEl, threshold) ==
    IF data = Null \/ ~node.plotRef THEN node
    ELSE IF MissingDataGuard(data)
    THEN [node EXCEPT !.outcome = "missing", !.repeatRender = FALSE,
                      !.invoked = <<>>, !.renderFlip = ~@]
    ELSE LET built == BuildTraces(data, mode, showEl, threshold)
         IN  IF built.threw
             THEN \* an exception out of a builder is caught at line 105
                  [node EXCEPT !.outcome = "error", !.content = "error",
                               !.traces = <<>>, !.repeatRender = FALSE,
                               !.invoked = built.invoked, !.renderFlip = ~@]
             ELSE IF Falsy(data.tissue_data.physical_size)
             THEN \* the layout (built after the traces) reads
                  \* tissue_data.physical_size[0]: TypeError, caught at line 105
                  [node EXCEPT !.outcome = "error", !.content = "error",
                               !.traces = <<>>, !.repeatRender = FALSE,
                               !.invoked = built.invoked, !.renderFlip = ~@]
             ELSE \* Plotly.newPlot (line 103) replaces whatever the node held
                  [NewPlot(node, built.traces) EXCEPT !.invoked = built.invoked]

PlotInit ==
    [ plotRef |-> FALSE, node |-> FALSE, content |-> "empty", traces |-> <<>>,
      camera |-> DefaultCamera, outcome |-> "none", renderFlip |-> FALSE,
      repeatRender |-> FALSE, countBefore |-> 0, invoked |-> <<>> ]

\* which of the three return statements (lines 244, 259, 279) renders
View(loading, data) ==
    IF loading THEN "loading" ELSE IF data = Null THEN "nodata" ELSE "main"

\* dependency comparison of the effect of lines 10-14
PlotDepsChanged(first, dataChanged, viewChanged) ==
    first \/ dataChanged \/ viewChanged

\* One React commit.  The loading view and the main view both render
\* div > div > div at the place of the plot node, so React keeps that DOM node
\* (and what Plotly put into it) across the loading switch and only attaches or
\* detaches plotRef; the no-data view has an <h3> there, which replaces the node.
PlotCommit(node, first, oldView, newView, dataChanged, viewChanged, data, mode, showEl, threshold) ==
    LET kept == ~first /\ oldView # "nodata" /\ newView # "nodata"
        n0 == IF kept THEN [node EXCEPT !.plotRef = (newView = "main")]
              ELSE [PlotInit EXCEPT !.plotRef = (newView = "main"),
                                    !.node = (newView # "nodata"),
                                    !.outcome = node.outcome,
                                    !.renderFlip = node.renderFlip]
    IN  IF PlotDepsChanged(first, dataChanged, viewChanged)
        THEN RenderVisualization(n0, data, mode, showEl, threshold)
        ELSE n0

(* ----------------------------- payloads ------------------------------- *)
Coords == Arr(<<0, 1>>)
FieldData(m) ==
    [x_coords |-> Coords, y_coords |-> Coords, z_coords |-> Coords,
     field_magnitude |-> m]
TissueData(t, size) ==
    [x_coords |-> Coords, y_coords |-> Coords, z_coords |-> Coords,
     tissue_type |-> t, physical_size |-> size]
Contact(pos, active) == [position |-> pos, is_active |-> active]
ElectrodeData(c) == [contacts |-> c, electrode_position |-> Arr(<<5, 5, 5>>)]

SomeField == FieldData(Arr(<< << <<30, 80>> >> >>))
ZeroField == FieldData(Arr(<< << <<0, 0>> >> >>))
SomeTissue == TissueData(Arr(<< << <<0, 2>> >> >>), Arr(<<10, 10, 10>>))
SomeElectrode ==
    ElectrodeData(Arr(<< Contact(Arr(<<5, 5, 4>>), TRUE),
                         Contact(Arr(<<5, 5, 6>>), FALSE) >>))

\* a contact without a position; a field_magnitude that is not an array
BadElectrode ==
    ElectrodeData(Arr(<< Contact(Arr(<<5, 5, 4>>), TRUE),
                         Contact(Undefined, FALSE) >>))
BadField == FieldData(Num(5))
NoMagnitudeField == FieldData(Undefined)
NoTypeTissue == TissueData(Undefined, Arr(<<10, 10, 10>>))
NoSizeTissue == TissueData(Arr(<< << <<0, 2>> >> >>), Undefined)

Payload(f, t, e) == [field_data |-> f, tissue_data |-> t, electrode_data |-> e]

PayloadChoices ==
    { Payload(SomeField, SomeTissue, SomeElectrode),
      Payload(SomeField, Null, SomeElectrode),
      Payload(ZeroField, SomeTissue, Null),
      Payload(SomeField, NoSizeTissue, SomeElectrode),
      Payload(SomeField, SomeTissue, BadElectrode),
      Payload(BadField, SomeTissue, SomeElectrode),
      Payload(SomeField, NoTypeTissue, SomeElectrode),
      Payload(NoMagnitudeField, SomeTissue, SomeElectrode) }

Modes == {"field", "tissue", "combined"}
Thresholds == {1, 10, 100}
CameraEyes == {<<150, 150, 150>>, <<0, 250, 50>>}

(* ------------------------------ actions ------------------------------- *)
InitScene ==
    /\ component = "scene"
    /\ parameters \in ParamChoices
    /\ containerSize = InitialSize
    /\ three \in {ThreeInit, [ThreeInit EXCEPT !.webgl = FALSE]}
    /\ simulationData = Null
    /\ visualizationMode = "field" /\ showElectrode = TRUE /\ fieldThreshold = 10

InitPlot ==
    /\ component = "plot"
    /\ parameters = CHOOSE p \in ParamChoices : p.contact = 0
    /\ containerSize = InitialSize
    /\ three = ThreeInit
    /\ simulationData \in PayloadChoices \cup {Null}
    /\ visualizationMode = "field" /\ showElectrode = TRUE /\ fieldThreshold = 10

Init ==
    /\ phase = "created"
    /\ isLoading \in BOOLEAN
    /\ isInitialized = FALSE
    /\ mapper = MapperInit
    /\ fieldCall = NoCall
    /\ traceCall = NoCall
    /\ app = NoCall
    /\ paramsId = 0
    /\ dataId = 0
    /\ plot = PlotInit
    /\ (InitScene \/ InitPlot)

\* first render and commit
Mount ==
    /\ component = "scene" /\ phase = "created"
    /\ LET w == Commit(three, TRUE, FALSE, FALSE, isLoading, FALSE, parameters,
                       containerSize)
       IN  IF w.uncaught
           THEN phase' = "unmounted" /\ three' = UnmountAfterError(w)
           ELSE phase' = "mounted" /\ three' = w
    /\ UNCHANGED <<component, isLoading, parameters, paramsId, isInitialized, containerSize>>
    /\ UNCHANGED <<plotVars, callVars>>

\* the re-render React schedules for setIsInitialized(true)
RenderStateUpdate ==
    /\ component = "scene" /\ phase = "mounted"
    /\ three.initQueued
    /\ isInitialized' = TRUE
    /\ three' = Commit(three, FALSE, isInitialized, TRUE, isLoading, FALSE,
                       parameters, containerSize)
    /\ UNCHANGED <<component, phase, isLoading, parameters, paramsId, containerSize>>
    /\ UNCHANGED <<plotVars, callVars>>

\* the host passes a new parameters object (handleParameterChange)
SetParameters(p) ==
    /\ component = "scene" /\ phase = "mounted"
    /\ parameters' = p
    /\ paramsId' = 1 - paramsId
    /\ isInitialized' = (isInitialized \/ three.initQueued)
    /\ three' = Commit(three, FALSE, isInitialized, isInitialized', isLoading,
                       TRUE, p, containerSize)
    /\ UNCHANGED <<component, phase, isLoading, containerSize>>
    /\ UNCHANGED <<plotVars, callVars>>

\* the host flips isLoading and passes the same parameters object
SetLoading(b) ==
    /\ component = "scene" /\ phase = "mounted"
    /\ b # isLoading
    /\ isLoading' = b
    /\ isInitialized' = (isInitialized \/ three.initQueued)
    /\ three' = Commit(three, FALSE, isInitialized, isInitialized', b, FALSE,
                       parameters, containerSize)
    /\ UNCHANGED <<component, phase, parameters, paramsId, containerSize>>
    /\ UNCHANGED <<plotVars, callVars>>

\* the host removes the component: the clean-ups run; the props and the mount
\* container go away with the instance
Unmount ==
    /\ component = "scene" /\ phase = "mounted"
    /\ phase' = "unmounted"
    /\ three' = UnmountCleanup(three)
    /\ isLoading' = FALSE
    /\ parameters' = NoProps
    /\ paramsId' = 0
    /\ containerSize' = InitialSize
    /\ UNCHANGED <<component, isInitialized>>
    /\ UNCHANGED <<plotVars, callVars>>

\* the browser runs a pending animation-frame callback
Tick ==
    /\ component \in SceneInstances
    /\ three.rafPending # {}
    /\ CanSmooth(three)
    /\ \E id \in three.rafPending :
          three' = Animate([three EXCEPT !.rafPending = @ \ {id}])
    /\ UNCHANGED <<component, phase, isLoading, parameters, paramsId,
                   isInitialized, containerSize>>
    /\ UNCHANGED <<plotVars, callVars>>

\* the window is resized while the component is on the page; the resize
\* listener, if registered, runs
WindowResize(size) ==
    /\ component = "scene" /\ phase = "mounted"
    /\ size # containerSize
    /\ containerSize' = size
    /\ three' = IF three.resizeListener THEN HandleResizeHandler(three, size)
                ELSE three
    /\ UNCHANGED <<component, phase, isLoading, parameters, paramsId, isInitialized>>
    /\ UNCHANGED <<plotVars, callVars>>

\* the button goes down with the pointer over the canvas
MouseDown(x, y) ==
    /\ component \in SceneInstances
    /\ "mousedown" \in three.canvasListeners
    /\ three' = [OnMouseDownHandler(three, x, y) EXCEPT !.pointerDown = TRUE]
    /\ UNCHANGED <<component, phase, isLoading, parameters, paramsId,
                   isInitialized, containerSize>>
    /\ UNCHANGED <<plotVars, callVars>>

MouseMove(x, y) ==
    /\ component \in SceneInstances
    /\ "mousemove" \in three.canvasListeners
    /\ LET w == OnMouseMoveHandler(three, x, y)
       IN  /\ Abs(w.targetRotationX) <= MaxTarget
           /\ Abs(w.targetRotationY) <= MaxTarget
           /\ three' = w
    /\ UNCHANGED <<component, phase, isLoading, parameters, paramsId,
                   isInitialized, containerSize>>
    /\ UNCHANGED <<plotVars, callVars>>

\* the button is released with the pointer over the canvas
MouseUp ==
    /\ component \in SceneInstances
    /\ "mouseup" \in three.canvasListeners
    /\ three' = [OnMouseUpHandler(three) EXCEPT !.pointerDown = FALSE]
    /\ UNCHANGED <<component, phase, isLoading, parameters, paramsId,
                   isInitialized, containerSize>>
    /\ UNCHANGED <<plotVars, callVars>>

Wheel(deltaY) ==
    /\ component \in SceneInstances
    /\ "wheel" \in three.canvasListeners
    /\ three' = OnWheelHandler(three, deltaY)
    /\ UNCHANGED <<component, phase, isLoading, parameters, paramsId,
                   isInitialized, containerSize>>
    /\ UNCHANGED <<plotVars, callVars>>

NextScene ==
    \/ Mount
    \/ RenderStateUpdate
    \/ \E p \in ParamChoices : SetParameters(p)
    \/ \E b \in BOOLEAN : SetLoading(b)
    \/ Unmount
    \/ Tick
    \/ \E s \in Sizes : WindowResize(s)
    \/ \E q \in PointerPositions : MouseDown(q[1], q[2])
    \/ \E q \in PointerPositions : MouseMove(q[1], q[2])
    \/ MouseUp
    \/ \E d \in WheelDeltas : Wheel(d)

(* --------------------- actions of BrainVisualization ------------------- *)
PlotMount ==
    /\ component = "plot" /\ phase = "created"
    /\ phase' = "mounted"
    /\ plot' = PlotCommit(plot, TRUE, "nodata", View(isLoading, simulationData),
                          FALSE, FALSE, simulationData, visualizationMode,
                          showElectrode, fieldThreshold)
    /\ UNCHANGED <<component, isLoading, simulationData, dataId,
                   visualizationMode, showElectrode, fieldThreshold>>
    /\ UNCHANGED <<sceneVars, callVars>>

\* runSimulation starts: the host passes isLoading = true
StartRun ==
    /\ component = "plot" /\ phase = "mounted" /\ ~isLoading
    /\ isLoading' = TRUE
    /\ plot' = PlotCommit(plot, FALSE, View(isLoading, simulationData),
                          View(TRUE, simulationData), FALSE, FALSE,
                          simulationData, visualizationMode, showElectrode,
                          fieldThreshold)
    /\ UNCHANGED <<component, phase, simulationData, dataId, visualizationMode,
                   showElectrode, fieldThreshold>>
    /\ UNCHANGED <<sceneVars, callVars>>

\* the request succeeds: new results object and isLoading = false in one update
RunSucceeds(d) ==
    /\ component = "plot" /\ phase = "mounted" /\ isLoading
    /\ isLoading' = FALSE
    /\ simulationData' = d
    /\ dataId' = 1 - dataId
    /\ plot' = PlotCommit(plot, FALSE, View(isLoading, simulationData),
                          View(FALSE, d), TRUE, FALSE, d, visualizationMode,
                          showElectrode, fieldThreshold)
    /\ UNCHANGED <<component, phase, visualizationMode, showElectrode,
                   fieldThreshold>>
    /\ UNCHANGED <<sceneVars, callVars>>

\* the request fails: the previous results object is kept
RunFails ==
    /\ component = "plot" /\ phase = "mounted" /\ isLoading
    /\ isLoading' = FALSE
    /\ plot' = PlotCommit(plot, FALSE, View(isLoading, simulationData),
                          View(FALSE, simulationData), FALSE, FALSE,
                          simulationData, visualizationMode, showElectrode,
                          fieldThreshold)
    /\ UNCHANGED <<component, phase, simulationData, dataId, visualizationMode,
                   showElectrode, fieldThreshold>>
    /\ UNCHANGED <<sceneVars, callVars>>

\* the view controls exist in the main view only (lines 283-321)
SetViewState(mode, showEl, threshold) ==
    /\ component = "plot" /\ phase = "mounted"
    /\ View(isLoading, simulationData) = "main"
    /\ <<mode, showEl, threshold>> #
           <<visualizationMode, showElectrode, fieldThreshold>>
    /\ visualizationMode' = mode
    /\ showElectrode' = showEl
    /\ fieldThreshold' = threshold
    /\ plot' = PlotCommit(plot, FALSE, "main", "main", FALSE, TRUE,
                          simulationData, mode, showEl, threshold)
    /\ UNCHANGED <<component, phase, isLoading, simulationData, dataId>>
    /\ UNCHANGED <<sceneVars, callVars>>

SetVisualizationMode(m) == SetViewState(m, showElectrode, fieldThreshold)
SetShowElectrode(b) == SetViewState(visualizationMode, b, fieldThreshold)
SetFieldThreshold(t) == SetViewState(visualizationMode, showElectrode, t)

\* the user orbits the camera of the Plotly scene
PlotCameraDrag(eye) ==
    /\ component = "plot" /\ phase = "mounted"
    /\ plot.plotRef /\ plot.content = "plot"
    /\ eye # plot.camera.eye
    /\ plot' = [plot EXCEPT !.camera.eye = eye]
    /\ UNCHANGED <<component, phase, isLoading, simulationData, dataId,
                   visualizationMode, showElectrode, fieldThreshold>>
    /\ UNCHANGED <<sceneVars, callVars>>

PlotUnmount ==
    /\ component = "plot" /\ phase = "mounted"
    /\ phase' = "unmounted"
    /\ plot' = [PlotInit EXCEPT !.outcome = plot.outcome,
                                !.renderFlip = plot.renderFlip]
    /\ UNCHANGED <<component, isLoading, simulationData, dataId,
                   visualizationMode, showElectrode, fieldThreshold>>
    /\ UNCHANGED <<sceneVars, callVars>>

NextPlot ==
    \/ PlotMount
    \/ StartRun
    \/ \E d \in PayloadChoices : RunSucceeds(d)
    \/ RunFails
    \/ \E m \in Modes : SetVisualizationMode(m)
    \/ \E b \in BOOLEAN : SetShowElectrode(b)
    \/ \E t \in Thresholds : SetFieldThreshold(t)
    \/ \E eye \in CameraEyes : PlotCameraDrag(eye)
    \/ PlotUnmount

Next == NextScene \/ NextPlot

Spec == Init /\ [][Next]_vars

(* ------------------ orbit controls and animation loop ----------------- *)
\* values gsap's tween of brainGroup.rotation.y (lines 311-316) writes on
\* its own ticks: a quarter and a half of the way to 2 * pi
TweenValues == {157 * RotUnit, 314 * RotUnit}

\* the scene after the first commit and the commit of setIsInitialized(true)
InitializedScene ==
    Commit(Commit(ThreeInit, TRUE, FALSE, FALSE, FALSE, FALSE, NoProps, InitialSize),
           FALSE, FALSE, TRUE, FALSE, FALSE, NoProps, InitialSize)

InitOrbit ==
    /\ component = "orbit"
    /\ phase = "mounted"
    /\ isLoading = FALSE
    /\ parameters = NoProps /\ paramsId = 0
    /\ isInitialized = TRUE
    /\ containerSize = InitialSize
    /\ three = InitializedScene
    /\ simulationData = Null /\ dataId = 0
    /\ visualizationMode = "field" /\ showElectrode = TRUE /\ fieldThreshold = 10
    /\ plot = PlotInit
    /\ mapper = MapperInit
    /\ fieldCall = NoCall
    /\ traceCall = NoCall
    /\ app = NoCall

\* a tick of gsap's ticker: the endless tween created at lines 311-316 (and
\* never killed) writes brainGroup.rotation.y
GsapTick(v) ==
    /\ component = "orbit"
    /\ three.created.brain > 0
    /\ three.brainRotation[2] # v
    /\ three' = [three EXCEPT !.brainRotation[2] = v]
    /\ UNCHANGED <<component, phase, isLoading, parameters, paramsId,
                   isInitialized, containerSize>>
    /\ UNCHANGED <<plotVars, callVars>>

\* the button is released with the pointer over another element or outside
\* the window: lines 434-437 register the listeners on the canvas only, no
\* handler of the component runs
PointerReleaseOutside ==
    /\ component = "orbit"
    /\ three.pointerDown
    /\ three' = [three EXCEPT !.pointerDown = FALSE]
    /\ UNCHANGED <<component, phase, isLoading, parameters, paramsId,
                   isInitialized, containerSize>>
    /\ UNCHANGED <<plotVars, callVars>>

NextOrbit ==
    \/ Tick
    \/ \E q \in PointerPositions : MouseDown(q[1], q[2])
    \/ \E q \in PointerPositions : MouseMove(q[1], q[2])
    \/ MouseUp
    \/ PointerReleaseOutside
    \/ \E d \in WheelDeltas : Wheel(d)
    \/ \E v \in TweenValues : GsapTick(v)

SpecOrbit == InitOrbit /\ [][NextOrbit]_vars

\* pointer positions of a drag that ends before the next frame
DragPositions == (0..MaxTarget) \X (0..MaxTarget)

\* the initialized scene after one completed drag from p to q
DraggedScene(p, q) ==
    OnMouseUpHandler(
        OnMouseMoveHandler(OnMouseDownHandler(InitializedScene, p[1], p[2]),
                           q[1], q[2]))

InitSmoothing ==
    /\ component = "smoothing"
    /\ phase = "mounted"
    /\ isLoading = FALSE
    /\ parameters = NoProps /\ paramsId = 0
    /\ isInitialized = TRUE
    /\ containerSize = InitialSize
    /\ three \in { DraggedScene(p, q) : p \in DragPositions, q \in DragPositions }
    /\ simulationData = Null /\ dataId = 0
    /\ visualizationMode = "field" /\ showElectrode = TRUE /\ fieldThreshold = 10
    /\ plot = PlotInit
    /\ mapper = MapperInit
    /\ fieldCall = NoCall
    /\ traceCall = NoCall
    /\ app = NoCall

\* no drag move arrives any more: frames and wheel events only
NextSmoothing ==
    \/ Tick
    \/ \E d \in WheelDeltas : Wheel(d)

\* the browser runs every pending animation-frame callback
SpecSmoothing == InitSmoothing /\ [][NextSmoothing]_vars /\ WF_vars(Tick)

(* --------------- calculateElectrodePosition on its own ---------------- *)
\* arguments: every contact of the switch and one on either side of it, and
\* for each of frequency and amplitude the default, the ends of the slider
\* range, another value and the value 0 that `||` replaces by the default
MapperContacts == -1..4
MapperFrequencies == {0, 1, 130, 185, 250}
MapperAmplitudes == {0, 1, 20, 35, 100}
MapperInputs ==
    [contact : MapperContacts, frequency : MapperFrequencies,
     amplitude : MapperAmplitudes]

InitMapper ==
    /\ component = "mapper"
    /\ phase = "created"
    /\ isLoading = FALSE
    /\ isInitialized = FALSE
    /\ parameters = CHOOSE q \in ParamChoices : q.contact = 0
    /\ paramsId = 0
    /\ containerSize = InitialSize
    /\ three = ThreeInit
    /\ simulationData = Null
    /\ dataId = 0
    /\ visualizationMode = "field" /\ showElectrode = TRUE /\ fieldThreshold = 10
    /\ plot = PlotInit
    /\ mapper = MapperInit
    /\ fieldCall = NoCall
    /\ traceCall = NoCall
    /\ app = NoCall

\* one call calculateElectrodePosition(params)
MapperCall(params) ==
    /\ component = "mapper"
    /\ mapper' = [mapper EXCEPT !.input = params,
                                !.output = CalculateElectrodePosition(params),
                                !.callFlip = ~@]
    /\ UNCHANGED <<component, phase, isLoading, sceneVars, plotVars, fieldCall, traceCall, app>>

\* the caller keeps the arguments and the result of the call just made
MapperRemember ==
    /\ component = "mapper"
    /\ mapper.input # NoCall
    /\ mapper.remembered # [input |-> mapper.input, output |-> mapper.output]
    /\ mapper' = [mapper EXCEPT !.remembered = [input |-> mapper.input,
                                                output |-> mapper.output]]
    /\ UNCHANGED <<component, phase, isLoading, sceneVars, plotVars, fieldCall, traceCall, app>>

NextMapper ==
    \/ \E q \in MapperInputs : MapperCall(q)
    \/ MapperRemember

SpecMapper == InitMapper /\ [][NextMapper]_vars

(* ----------------------- createFieldTrace on its own ------------------- *)
\* largest extent of a field-magnitude tensor along one axis
MaxDim == 2
FieldValues == {0, 30, 80}
\* the tensor of shape (nx, ny, nz) holding `hi` in cell q and `lo` elsewhere
PeakTensor(nx, ny, nz, q, lo, hi) ==
    [i \in 1..nx |-> [j \in 1..ny |-> [k \in 1..nz |->
        IF <<i, j, k>> = q THEN hi ELSE lo]]]
Tensors ==
    { PeakTensor(sh[1], sh[2], sh[3], q, v[1], v[2]) :
        sh \in (1..MaxDim) \X (1..MaxDim) \X (1..MaxDim),
        q \in (1..MaxDim) \X (1..MaxDim) \X (1..MaxDim),
        v \in FieldValues \X FieldValues }
\* arrays that hold no value: [], [[]], [[[]]], [[], []]
EmptyTensors == { <<>>, << <<>> >>, << << <<>> >> >>, << <<>>, <<>> >> }

InitFieldTrace ==
    /\ component = "field"
    /\ phase = "created"
    /\ isLoading = FALSE
    /\ isInitialized = FALSE
    /\ parameters = NoProps
    /\ paramsId = 0
    /\ containerSize = InitialSize
    /\ three = ThreeInit
    /\ simulationData = Null
    /\ dataId = 0
    /\ visualizationMode = "field" /\ showElectrode = TRUE /\ fieldThreshold = 10
    /\ plot = PlotInit
    /\ mapper = MapperInit
    /\ fieldCall \in [ field_magnitude : Tensors \cup EmptyTensors,
                       threshold : Thresholds, called : {FALSE},
                       flatField : {NoCall}, maxField : {NoCall},
                       trace : {NoCall} ]
    /\ traceCall = NoCall
    /\ app = NoCall

\* the call createFieldTrace({..., field_magnitude}, threshold); flatField and
\* maxField are the locals of lines 149-150, not computed when line 146 returns
FieldTraceCall ==
    /\ component = "field"
    /\ ~fieldCall.called
    /\ LET m == fieldCall.field_magnitude
       IN  fieldCall' =
              [fieldCall EXCEPT
                 !.called = TRUE,
                 !.flatField = IF Len(m) = 0 THEN NoCall ELSE Arr(Flat3(m)),
                 !.maxField = IF Len(m) = 0 THEN NoCall ELSE MathMax(Flat3(m)),
                 !.trace = CreateFieldTrace(FieldData(Arr(m)), fieldCall.threshold)]
    /\ UNCHANGED <<component, phase, isLoading, sceneVars, plotVars, mapper, traceCall, app>>

NextFieldTrace == FieldTraceCall

SpecFieldTrace == InitFieldTrace /\ [][NextFieldTrace]_vars

(* ------------- createTissueTrace and createElectrodeTrace on their own ------------- *)
\* longest contact list passed to createElectrodeTrace
MaxContacts == 3

RECURSIVE SeqsUpTo(_, _)
\* the sequences over S of length at most n
SeqsUpTo(S, n) ==
    IF n = 0 THEN {<<>>}
    ELSE LET shorter == SeqsUpTo(S, n - 1)
         IN  shorter \cup { Append(q, e) : q \in shorter, e \in S }

\* contacts as the backend sends them, and contacts without a position
ContactChoices ==
    { Contact(pos, active) :
        pos \in {Arr(<<5, 5, 4>>), Arr(<<5, 6, 7>>), Undefined},
        active \in BOOLEAN }

ElectrodeInputs ==
    { ElectrodeData(Undefined) }
    \cup { ElectrodeData(Arr(cs)) : cs \in SeqsUpTo(ContactChoices, MaxContacts) }

\* tissue records with each of the four arrays present or missing
TissueInputs ==
    { [x_coords |-> x, y_coords |-> y, z_coords |-> z, tissue_type |-> t,
       physical_size |-> Arr(<<10, 10, 10>>)] :
        x \in {Coords, Undefined}, y \in {Coords, Undefined},
        z \in {Coords, Undefined},
        t \in {Arr(<< << <<0, 2>> >> >>), Arr(<< << <<1>>, <<1>> >> >>), Undefined} }

InitBuilders ==
    /\ component = "builders"
    /\ phase = "created"
    /\ isLoading = FALSE
    /\ parameters = NoProps /\ paramsId = 0
    /\ isInitialized = FALSE
    /\ containerSize = InitialSize
    /\ three = ThreeInit
    /\ simulationData = Null /\ dataId = 0
    /\ visualizationMode = "field" /\ showElectrode = TRUE /\ fieldThreshold = 10
    /\ plot = PlotInit
    /\ mapper = MapperInit
    /\ fieldCall = NoCall
    /\ traceCall \in
          [builder : {"tissue"}, arg : TissueInputs, called : {FALSE},
           trace : {NoCall}]
          \cup [builder : {"electrode"}, arg : ElectrodeInputs, called : {FALSE},
                trace : {NoCall}]
    /\ app = NoCall

\* the call createTissueTrace(tissueData)
TissueTraceCall ==
    /\ component = "builders"
    /\ traceCall.builder = "tissue" /\ ~traceCall.called
    /\ traceCall' = [traceCall EXCEPT !.called = TRUE,
                                      !.trace = CreateTissueTrace(traceCall.arg)]
    /\ UNCHANGED <<component, phase, isLoading, sceneVars, plotVars, mapper,
                   fieldCall, app>>

\* the call createElectrodeTrace(electrodeData)
ElectrodeTraceCall ==
    /\ component = "builders"
    /\ traceCall.builder = "electrode" /\ ~traceCall.called
    /\ traceCall' = [traceCall EXCEPT !.called = TRUE,
                                      !.trace = CreateElectrodeTrace(traceCall.arg)]
    /\ UNCHANGED <<component, phase, isLoading, sceneVars, plotVars, mapper,
                   fieldCall, app>>

NextBuilders == TissueTraceCall \/ ElectrodeTraceCall

SpecBuilders == InitBuilders /\ [][NextBuilders]_vars

(* ============================== properties ============================= *)
ElectrodeGroupFor(p) ==
    [CreateDBSElectrode(p) EXCEPT !.position = CalculateElectrodePosition(p)]
SceneInitialized ==
    isInitialized /\ three.rendererRef /\ three.sceneRef /\ three.cameraRef
TissueMissingPayload == Payload(SomeField, Null, SomeElectrode)

\* C1: with tissue_data missing, field_data and electrode_data present and the
\* mode "combined", the plot shows exactly the field trace and the electrode
\* trace (and renderVisualization lets no exception out).
C1_TissueMissingShowsFieldAndElectrode ==
    ( /\ component = "plot" /\ phase = "mounted" /\ plot.plotRef
      /\ simulationData = TissueMissingPayload
      /\ visualizationMode = "combined" /\ showElectrode )
    => /\ plot.content = "plot"
       /\ plot.traces = << CreateFieldTrace(SomeField, fieldThreshold),
                           CreateElectrodeTrace(SomeElectrode) >>

\* C2: every render sees a complete electrode set: none before the first
\* createElectrodes, afterwards exactly the one group built for some parameters;
\* never the cleared scene or the old and the new group together.
C2_RenderSeesCompleteScene ==
    (component = "scene" /\ three.frame # NoFrame) =>
        \/ three.frame.electrodes = <<>> /\ ~three.frame.afterBuild
        \/ \E p \in ParamChoices : three.frame.electrodes = <<ElectrodeGroupFor(p)>>

\* a rebuild has replaced the electrode set while a frame request was pending:
\* the last frame drew the old complete set, the scene holds the new one
C2_Witness ==
    /\ component = "scene" /\ three.frame # NoFrame
    /\ three.rafPending # {}
    /\ Len(three.frame.electrodes) = 1
    /\ three.sceneElectrodes = <<ElectrodeGroupFor(parameters)>>
    /\ three.sceneElectrodes # three.frame.electrodes

\* C3: a rebuild with the same descriptors as the one before leaves the number
\* of electrode groups in the scene, and of traces in the plot, unchanged.
C3_RepeatedRebuildKeepsCount ==
    /\ three.repeatBuild => Len(three.sceneElectrodes) = three.countBefore
    /\ plot.repeatRender => Len(plot.traces) = plot.countBefore

C3_Witness ==
    \/ three.repeatBuild /\ Len(three.sceneElectrodes) = 1
    \/ plot.repeatRender /\ Len(plot.traces) = 2

\* C4: whenever an animation frame is pending or a frame has been rendered, the
\* scene is Initialized (isInitialized, renderer, scene and camera allocated).
C4_LoopOnlyWhenInitialized ==
    (component = "scene" /\ (three.rafPending # {} \/ three.frame # NoFrame))
        => SceneInitialized

C4_Witness ==
    component = "scene" /\ phase = "mounted" /\ three.rafPending # {}

\* C5: after teardown no frame request is pending (so no tick runs), and the
\* running loop has been cancelled exactly once, by the teardown.
C5_LoopStopsOnDisposal ==
    component = "scene" =>
        /\ phase = "unmounted" =>
              /\ three.rafPending = {}
              /\ three.cancelled = IF three.animationFrameRef # 0 THEN 1 ELSE 0
        /\ phase # "unmounted" => three.cancelled = 0

C5_Witness ==
    component = "scene" /\ phase = "unmounted" /\ three.cancelled = 1

\* C6: teardown releases the renderer and detaches the resize listener and the
\* four canvas listeners; no disposal step runs while the component is mounted.
C6_DisposalReleasesEverything ==
    component = "scene" =>
        /\ phase = "unmounted" =>
              /\ ~three.resizeListener
              /\ three.canvasListeners = {}
              /\ three.rendererRef => three.rendererDisposed
        /\ phase = "mounted" => three.cleanupRuns = 0

\* C7: scene, camera, renderer, lights, brain model and controls are created at
\* most once, however often initializeScene is called.
C7_InitializeOnce ==
    component = "scene" =>
        /\ three.created.scene <= 1 /\ three.created.camera <= 1
        /\ three.created.renderer <= 1 /\ three.created.light <= 2
        /\ three.created.brain <= 1 /\ three.created.controls <= 1
        /\ three.sceneLights <= 2 /\ three.sceneBrains <= 1

C7_Witness ==
    /\ component = "scene" /\ three.initCalls = 2 /\ isInitialized
    /\ three.created.renderer = 1 /\ three.created.light = 2

\* C8: createElectrodes runs only in a step that changes the parameters object
\* or completes initialization, renderVisualization only in a step that changes
\* the data object or the ViewState or mounts the component; so a drag, a wheel
\* event or a tick alone never rebuilds.
C8_RebuildOnlyOnDataViewOrInit ==
    [][ /\ three'.buildFlip # three.buildFlip =>
              (paramsId' # paramsId \/ isInitialized' # isInitialized)
        /\ plot'.renderFlip # plot.renderFlip =>
              \/ dataId' # dataId
              \/ <<visualizationMode, showElectrode, fieldThreshold>>' #
                     <<visualizationMode, showElectrode, fieldThreshold>>
              \/ phase' # phase ]_vars

\* the user has dragged and zoomed after the electrodes were built
C8_Witness ==
    /\ component = "scene" /\ phase = "mounted" /\ three.everBuilt
    /\ three.targetRotationY # 0 /\ three.cameraZ # InitialZoom
    /\ three.frame # NoFrame /\ three.frame.afterBuild
    /\ Len(three.sceneElectrodes) = 1

\* C9: a rebuild (data update or ViewState change) leaves the camera unchanged.
C9_RebuildKeepsCamera ==
    [][ /\ three'.buildFlip # three.buildFlip =>
              /\ three'.cameraZ = three.cameraZ
              /\ three'.cameraAspect = three.cameraAspect
        /\ (plot'.renderFlip # plot.renderFlip /\ plot.content = "plot"
                /\ plot'.content = "plot") =>
              plot'.camera = plot.camera ]_vars

\* C10: the zoom distance stays within [2, 10], and a wheel event sets it to
\* clamp(distance + deltaY * 0.01).
C10_ZoomClamped ==
    /\ [](three.cameraRef => (ZoomMin <= three.cameraZ /\ three.cameraZ <= ZoomMax))
    /\ [][ \A d \in WheelDeltas : Wheel(d) =>
              three'.cameraZ =
                  IF three.cameraZ + d < ZoomMin THEN ZoomMin
                  ELSE IF three.cameraZ + d > ZoomMax THEN ZoomMax
                  ELSE three.cameraZ + d ]_vars

\* a wheel event has been clamped at the near limit
C10_Witness ==
    component = "scene" /\ three.cameraRef /\ three.cameraZ = ZoomMin

\* the renderer does not exist yet, or the component has been torn down
UninitializedOrDisposed == ~three.rendererRef \/ phase = "unmounted"

InteractionEvent ==
    \/ \E q \in PointerPositions : MouseDown(q[1], q[2])
    \/ \E q \in PointerPositions : MouseMove(q[1], q[2])
    \/ MouseUp
    \/ \E d \in WheelDeltas : Wheel(d)

\* C11: a mousemove, mousedown, mouseup or wheel event delivered while the
\* renderer is Uninitialized or Disposed changes no drag state, target rotation
\* or zoom distance.
C11_NoInteractionOutsideInitialized ==
    [][ (UninitializedOrDisposed /\ InteractionEvent) =>
            /\ three'.isMouseDown = three.isMouseDown
            /\ three'.mouseX = three.mouseX /\ three'.mouseY = three.mouseY
            /\ three'.targetRotationX = three.targetRotationX
            /\ three'.targetRotationY = three.targetRotationY
            /\ three'.cameraZ = three.cameraZ ]_vars

\* width / height of two sizes are the same ratio
SameRatio(a, b) == a[1] * b[2] = a[2] * b[1]

\* C12: the camera aspect and the renderer size are updated together: at every
\* render the camera aspect equals renderer width / height, and a resize of
\* the displayed, initialized scene sets both from the new container size.
C12_AspectMatchesViewport ==
    /\ [](component = "scene" =>
            (three.rendererRef => SameRatio(three.cameraAspect, three.rendererSize)))
    /\ [][ \A s \in Sizes :
             (WindowResize(s) /\ phase = "mounted" /\ ~isLoading /\ three.rendererRef)
                 => /\ three'.cameraAspect = s
                    /\ three'.rendererSize = s ]_vars

\* the container went from 800x600 to 400x300: camera and renderer hold
\* 400x300 for the next frame
C12_Witness ==
    /\ component = "scene" /\ phase = "mounted" /\ three.frame # NoFrame
    /\ InitialSize = <<800, 600>>
    /\ containerSize = <<400, 300>>
    /\ three.cameraAspect = <<400, 300>> /\ three.rendererSize = <<400, 300>>
    /\ three.rafPending # {}

\* the plot node shows the outcome of renderVisualization for the current
\* data and ViewState
PlotRendered ==
    /\ component = "plot" /\ phase = "mounted" /\ plot.plotRef
    /\ simulationData # Null /\ plot.outcome # "none"

\* the traces of the layers the view selects, leaving out the layers in `omit`
LayersWithout(omit, data) ==
    (IF "tissue" \notin omit /\ visualizationMode \in {"tissue", "combined"}
     THEN <<CreateTissueTrace(data.tissue_data)>> ELSE <<>>)
    \o (IF "field" \notin omit /\ visualizationMode \in {"field", "combined"}
        THEN <<CreateFieldTrace(data.field_data, fieldThreshold)>> ELSE <<>>)
    \o (IF "electrode" \notin omit /\ showElectrode
        THEN <<CreateElectrodeTrace(data.electrode_data)>> ELSE <<>>)

ElectrodeThrowsPayload == Payload(SomeField, SomeTissue, BadElectrode)
FieldThrowsPayload == Payload(BadField, SomeTissue, SomeElectrode)

\* C13: when the electrode builder or the field builder throws internally, it
\* yields no trace and the plot still shows the traces of the other builders
\* the view selects.
C13_BuilderFailureIsolated ==
    /\ (PlotRendered /\ simulationData = ElectrodeThrowsPayload) =>
           /\ plot.content = "plot"
           /\ plot.traces = LayersWithout({"electrode"}, simulationData)
    /\ (PlotRendered /\ simulationData = FieldThrowsPayload) =>
           /\ plot.content = "plot"
           /\ plot.traces = LayersWithout({"field"}, simulationData)

\* the electrode builder threw while the combined view with electrode is
\* shown: the tissue and the field trace are on the plot
C13_Witness ==
    /\ PlotRendered /\ simulationData = ElectrodeThrowsPayload
    /\ CreateElectrodeTraceTry(simulationData.electrode_data) = Thrown
    /\ visualizationMode = "combined" /\ showElectrode
    /\ Len(plot.traces) = 2

\* C14: with tissue_data lacking tissue_type or physical_size, or field_data
\* lacking field_magnitude, only the layer needing that field is omitted and
\* the remaining layers are plotted.
C14_SingleFieldOmitsOneLayer ==
    /\ (PlotRendered /\ simulationData = Payload(SomeField, NoTypeTissue, SomeElectrode)) =>
           /\ plot.content = "plot"
           /\ plot.traces = LayersWithout({"tissue"}, simulationData)
    /\ (PlotRendered /\ simulationData = Payload(NoMagnitudeField, SomeTissue, SomeElectrode)) =>
           /\ plot.content = "plot"
           /\ plot.traces = LayersWithout({"field"}, simulationData)
    /\ (PlotRendered /\ simulationData = Payload(SomeField, NoSizeTissue, SomeElectrode)) =>
           /\ plot.content = "plot"
           /\ plot.traces = LayersWithout({}, simulationData)

\* C15: when field_data or tissue_data is absent from the payload, the plot
\* node shows an inline message.
C15_MissingDataShowsPlaceholder ==
    (PlotRendered /\ MissingDataGuard(simulationData)) =>
        plot.content \notin {"empty", "plot"}

\* initializeScene went past its guard in a browser that cannot create the
\* WebGL context
RendererCreationFailed ==
    component = "scene" /\ ~three.webgl /\ three.created.camera > 0

\* C16: if the renderer cannot be created during initialization, the instance
\* never becomes Initialized, no tick and no electrode rebuild ever happens for
\* it, and the exception leaves the component instead of being swallowed.
C16_InitFailureIsFatal ==
    RendererCreationFailed =>
        /\ ~isInitialized /\ ~three.initQueued /\ ~three.rendererRef
        /\ three.rafPending = {} /\ three.frame = NoFrame
        /\ ~three.everBuilt /\ three.sceneElectrodes = <<>>
        /\ three.uncaught /\ phase = "unmounted"

C16_Witness ==
    RendererCreationFailed /\ three.uncaught /\ three.initCalls = 1

\* the last call and the remembered call, when both exist
TwoCalls == mapper.input # NoCall /\ mapper.remembered # NoCall

ReferenceSettings(q) == q.frequency = 130 /\ q.amplitude = 20

\* C17: at frequency 130 and amplitude 2.0 two different contacts of 0..3 get
\* different positions.
C17_ContactsPairwiseDistinct ==
    ( /\ component = "mapper" /\ TwoCalls
      /\ ReferenceSettings(mapper.input)
      /\ ReferenceSettings(mapper.remembered.input)
      /\ mapper.input.contact \in 0..3
      /\ mapper.remembered.input.contact \in 0..3
      /\ mapper.input.contact # mapper.remembered.input.contact )
    => mapper.output # mapper.remembered.output

\* contacts 2 and 3 have been mapped at the reference settings
C17_Witness ==
    /\ component = "mapper" /\ TwoCalls
    /\ ReferenceSettings(mapper.input)
    /\ ReferenceSettings(mapper.remembered.input)
    /\ mapper.input.contact = 3 /\ mapper.remembered.input.contact = 2
    /\ mapper.output.x # mapper.remembered.output.x

C19_DeepestContactAnchor ==
    ( /\ component = "mapper" /\ mapper.input # NoCall
      /\ mapper.input = [contact |-> 0, frequency |-> 130, amplitude |-> 20] )
    => mapper.output = [x |-> -800, y |-> -300, z |-> 200]

C19_Witness ==
    /\ component = "mapper" /\ mapper.input # NoCall
    /\ mapper.input = [contact |-> 0, frequency |-> 130, amplitude |-> 20]
    /\ mapper.output.x = -800

\* tensors whose every value is 0
ZeroTensors ==
    { << << <<0, 0>> >> >>, << << <<0>>, <<0>> >>, << <<0>> >> >>,
      << << <<0>> >> >> }

\* C20: for a field-magnitude tensor of zeros the field builder returns null,
\* and a render selecting the field layer completes with no field trace.
C20_ZeroFieldNoTrace ==
    component = "plot" =>
        /\ \A m \in ZeroTensors : \A t \in Thresholds :
               /\ CreateFieldTraceTry(FieldData(Arr(m)), t) # Thrown
               /\ CreateFieldTrace(FieldData(Arr(m)), t) = Null
        /\ (PlotRendered /\ simulationData = Payload(ZeroField, SomeTissue, Null)) =>
               /\ plot.outcome = "plotted" /\ plot.content = "plot"
               /\ \A i \in 1..Len(plot.traces) : plot.traces[i].type # "volume"

\* the combined view of a payload with an all-zero field shows the tissue only
C20_Witness ==
    /\ PlotRendered /\ simulationData = Payload(ZeroField, SomeTissue, Null)
    /\ visualizationMode = "combined"
    /\ plot.traces = <<CreateTissueTrace(SomeTissue)>>

\* createFieldTrace has been called on a tensor with at least one cell
FieldCalled ==
    component = "field" /\ fieldCall.called /\ fieldCall.field_magnitude \in Tensors

\* the cells of a tensor nested three deep, and the largest of them
CellsOf(m) ==
    UNION { UNION { { m[i][j][k] : k \in 1..Len(m[i][j]) } : j \in 1..Len(m[i]) }
            : i \in 1..Len(m) }
CellMax(m) == CHOOSE v \in CellsOf(m) : \A u \in CellsOf(m) : u <= v

\* C21: every field trace produced, for each threshold of 0.01, 0.1 and 1.0,
\* has surface count exactly 5, isomin equal to the threshold and isomax equal
\* to the largest magnitude.
C21_SurfaceCountFixed ==
    (FieldCalled /\ fieldCall.trace # Null) =>
        /\ fieldCall.trace.surface_count = 5
        /\ fieldCall.trace.isomin = fieldCall.threshold
        /\ fieldCall.trace.isomax.finite
        /\ fieldCall.trace.isomax.v = CellMax(fieldCall.field_magnitude)

\* a trace was produced at the highest threshold
C21_Witness ==
    /\ FieldCalled /\ fieldCall.trace # Null
    /\ fieldCall.threshold = 100 /\ fieldCall.trace.surface_count = 5
    /\ fieldCall.trace.isomax.v = 80

\* C22: flattening a tensor of shape (nx, ny, nz) gives nx * ny * nz values, and
\* the maximum of the flattened sequence is the largest cell.
C22_FlattenKeepsCells ==
    FieldCalled =>
        LET m == fieldCall.field_magnitude
        IN  /\ Len(fieldCall.flatField.v) = Len(m) * Len(m[1]) * Len(m[1][1])
            /\ fieldCall.maxField.finite
            /\ fieldCall.maxField.v = CellMax(m)

\* a 2 x 2 x 2 tensor whose largest value sits in the last cell was flattened
C22_Witness ==
    /\ FieldCalled /\ Len(fieldCall.flatField.v) = 8
    /\ fieldCall.field_magnitude[2][2][2] = 80
    /\ fieldCall.field_magnitude[1][1][1] = 30
    /\ fieldCall.maxField.v = 80

\* C29: the field builder returns null whenever the flattened magnitude
\* sequence is empty, also for [[]] and [[[]]].
C29_EmptyFlattenedNoTrace ==
    ( /\ component = "field" /\ fieldCall.called
      /\ Flat3(fieldCall.field_magnitude) = <<>> )
    => fieldCall.trace = Null

\* parameters within the ranges of the controls: contact 0..3, frequency
\* 1..250 Hz, amplitude 0.1..10.0 mA
ValidParameters(q) ==
    /\ q.contact \in 0..3
    /\ 1 <= q.frequency /\ q.frequency <= 250
    /\ 1 <= q.amplitude /\ q.amplitude <= 100

\* the documented anchors of contacts 0..3 and the mid-depth default
AnchorTable ==
    [c \in 0..3 |->
        [x |-> -800 + 200 * c, y |-> -300 + 200 * c, z |-> 200 + 100 * c]]
MidDepthAnchor == [x |-> -600, y |-> 0, z |-> 300]

\* v lies strictly on the side of `own` with respect to `other`
SameSide(own, other, v) == (other - own) * (other - v) > 0

\* C27: for valid parameters the perturbed x and y of a contact stay strictly
\* on that contact's side of the anchor coordinates of its neighbours.
C27_PerturbationWithinSpacing ==
    ( /\ component = "mapper" /\ mapper.input # NoCall
      /\ ValidParameters(mapper.input) )
    => \A n \in 0..3 :
          (n - mapper.input.contact) \in {-1, 1} =>
              /\ SameSide(AnchorTable[mapper.input.contact].x, AnchorTable[n].x,
                          mapper.output.x)
              /\ SameSide(AnchorTable[mapper.input.contact].y, AnchorTable[n].y,
                          mapper.output.y)

\* C28: a contact index outside 0..3 is mapped from the mid-depth anchor
\* (-0.6, 0, 0.3), an index of 0..3 from its table entry, each followed by the
\* frequency and amplitude perturbation.
C28_DefaultAnchorOutOfRange ==
    (component = "mapper" /\ mapper.input # NoCall) =>
        LET q == mapper.input
            f == IF q.frequency = 0 THEN 130 ELSE q.frequency
            a == IF q.amplitude = 0 THEN 20 ELSE q.amplitude
            base == IF q.contact \in 0..3 THEN AnchorTable[q.contact]
                    ELSE MidDepthAnchor
        IN  mapper.output = [x |-> base.x + (f - 130),
                             y |-> base.y + (a - 20) * 5,
                             z |-> base.z]

\* contact 4 and contact -1 were mapped, with a perturbation
C28_Witness ==
    /\ component = "mapper" /\ TwoCalls
    /\ mapper.input.contact = 4 /\ mapper.remembered.input.contact = -1
    /\ mapper.input.frequency = 250
    /\ mapper.output = [x |-> -480, y |-> 0, z |-> 300]

\* the builders the view configuration selects, in the order tissue, field,
\* electrode
SelectedBuilders(data, mode, showEl) ==
    (IF mode \in {"tissue", "combined"} THEN <<"tissue">> ELSE <<>>)
    \o (IF mode \in {"field", "combined"} THEN <<"field">> ELSE <<>>)
    \o (IF showEl /\ data.electrode_data # Null THEN <<"electrode">> ELSE <<>>)

\* position of a trace kind in the order tissue, field, electrode
KindRank(type) ==
    CASE type = "isosurface" -> 1 [] type = "volume" -> 2
      [] type = "scatter3d" -> 3 [] OTHER -> 0

BuilderOfKind(type) ==
    CASE type = "isosurface" -> "tissue" [] type = "volume" -> "field"
      [] type = "scatter3d" -> "electrode" [] OTHER -> "none"

\* C30: a call of renderVisualization that passes the missing-data guard
\* invokes exactly the builders the view configuration selects (tissue iff
\* mode is tissue or combined, field iff mode is field or combined, electrode
\* iff showElectrode and electrode_data is present), and the trace list it
\* draws is strictly ordered tissue, field, electrode (so at most one trace of
\* each kind), each trace coming from an invoked builder.
C30_TraceSelectionFollowsView ==
    [][ ( /\ component = "plot"
          /\ plot'.renderFlip # plot.renderFlip
          /\ plot'.outcome # "missing" )
        => /\ plot'.invoked =
                 SelectedBuilders(simulationData', visualizationMode',
                                  showElectrode')
           /\ \A i, j \in 1..Len(plot'.traces) :
                 i < j => /\ KindRank(plot'.traces[i].type) > 0
                          /\ KindRank(plot'.traces[i].type)
                               < KindRank(plot'.traces[j].type)
           /\ \A i \in 1..Len(plot'.traces) :
                 \E k \in 1..Len(plot'.invoked) :
                     plot'.invoked[k] = BuilderOfKind(plot'.traces[i].type)
      ]_vars

\* all three builders were invoked and the drawing holds their three traces;
C30_Witness ==
    /\ PlotRendered /\ plot.outcome = "plotted"
    /\ visualizationMode = "combined" /\ showElectrode
    /\ plot.invoked = <<"tissue", "field", "electrode">>
    /\ Len(plot.traces) = 3
    /\ plot.traces[1].type = "isosurface" /\ plot.traces[3].type = "scatter3d"

\* a step in which a pending animation-frame callback ran animate: only
\* requestAnimationFrame stores a new id in animationFrameRef
TickStep ==
    /\ component = "orbit"
    /\ three'.animationFrameRef # three.animationFrameRef

\* the value one smoothing step gives a rotation r with target t (in pixels)
Smoothed(r, t) == r + (t * RotUnit - r) \div 10

\* C23: a tick (1) smooths the rotation on both axes, (2) assigns it to the
\* scene root, (3) renders once, with the root's rotation equal to the smoothed
\* rotation at that moment whatever the tween wrote before, and with the next
\* tick not yet requested, (4) requests exactly one next tick.
C23_TickOrder ==
    [][ TickStep =>
          LET rx == Smoothed(three.rotationX, three.targetRotationX)
              ry == Smoothed(three.rotationY, three.targetRotationY)
          IN  /\ three'.rotationX = rx /\ three'.rotationY = ry
              /\ three'.brainRotation = <<rx, ry>>
              /\ three'.renders = 1
              /\ three'.frame.root = <<rx, ry>>
              /\ three'.frame.pending = Cardinality(three.rafPending) - 1
              /\ Cardinality(three'.rafPending) = Cardinality(three.rafPending)
              /\ three'.animationFrameRef \in three'.rafPending
      ]_vars

\* a frame was rendered with the smoothed, non-zero rotation, and the tween has
\* written the root's rotation since
C23_Witness ==
    /\ component = "orbit" /\ three.frame # NoFrame
    /\ three.rotationX # 0 /\ three.rotationY # 0
    /\ three.frame.root = <<three.rotationX, three.rotationY>>
    /\ three.brainRotation[2] \in TweenValues
    /\ three.brainRotation # three.frame.root

\* C24: a step that changes the target rotation happens while dragging, adds
\* the pointer's displacement (deltaX to targetRotationY, deltaY to
\* targetRotationX) and leaves the smoothed rotation, the scene root and the
\* camera unchanged; while not dragging nothing but a mousedown changes the
\* recorded pointer position or the target.
C24_DragMoveOnlyAccumulatesTarget ==
    [][ component = "orbit" =>
          /\ ( \/ three'.targetRotationX # three.targetRotationX
               \/ three'.targetRotationY # three.targetRotationY )
             => /\ three.isMouseDown /\ three'.isMouseDown
                /\ three'.targetRotationY - three.targetRotationY
                     = three'.mouseX - three.mouseX
                /\ three'.targetRotationX - three.targetRotationX
                     = three'.mouseY - three.mouseY
                /\ three'.rotationX = three.rotationX
                /\ three'.rotationY = three.rotationY
                /\ three'.brainRotation = three.brainRotation
                /\ three'.cameraZ = three.cameraZ
                /\ three'.cameraAspect = three.cameraAspect
                /\ three'.frame = three.frame
          /\ (~three.isMouseDown /\ ~three'.isMouseDown)
             => /\ three'.mouseX = three.mouseX /\ three'.mouseY = three.mouseY
                /\ three'.targetRotationX = three.targetRotationX
                /\ three'.targetRotationY = three.targetRotationY
      ]_vars

\* a drag from (0, 0) to (1, 2) has set the target and nothing else
C24_Witness ==
    /\ component = "orbit" /\ three.isMouseDown
    /\ three.mouseX = 1 /\ three.mouseY = 2
    /\ three.targetRotationY = 1 /\ three.targetRotationX = 2
    /\ three.rotationX = 0 /\ three.rotationY = 0
    /\ three.brainRotation = <<0, 0>>
    /\ three.cameraZ = InitialZoom

\* C25: once the user has released the mouse button, wherever the pointer was,
\* the controls are not dragging.
C25_ReleaseEndsDrag ==
    (component = "orbit" /\ ~three.pointerDown) => ~three.isMouseDown

\* signed distance from the rotation to its target, per axis
DistanceX == three.targetRotationX * RotUnit - three.rotationX
DistanceY == three.targetRotationY * RotUnit - three.rotationY

C31_OneElectrodeForLatestParameters ==
    ( /\ component = "scene" /\ phase = "mounted"
      /\ isInitialized /\ three.sceneRef )
    => /\ Len(three.sceneElectrodes) = 1
       /\ three.electrodesRef = three.sceneElectrodes
       /\ three.sceneElectrodes[1].position = CalculateElectrodePosition(parameters)
       /\ three.sceneElectrodes[1].contacts = 4
       /\ three.sceneElectrodes[1].active = {parameters.contact}
       /\ three.electrodePosition = CalculateElectrodePosition(parameters)

\* the group for contact 2 has replaced an earlier group
C31_Witness ==
    /\ component = "scene" /\ phase = "mounted" /\ isInitialized
    /\ parameters.contact = 2
    /\ three.countBefore = 1 /\ ~three.repeatBuild
    /\ Len(three.sceneElectrodes) = 1
    /\ three.sceneElectrodes[1].active = {2}
    /\ three.sceneElectrodes[1].position = [x |-> -345, y |-> 175, z |-> 400]

ElectrodeBuilderCalled ==
    component = "builders" /\ traceCall.builder = "electrode" /\ traceCall.called
TissueBuilderCalled ==
    component = "builders" /\ traceCall.builder = "tissue" /\ traceCall.called

\* every contact of the list carries a position
WellFormedContacts(cs) == \A i \in 1..Len(cs) : cs[i].position # Undefined

\* C32: createElectrodeTrace returns no trace when the contact list is missing
\* or empty; for a non-empty list of contacts with positions it returns one
\* point per contact, in input order, of size 12 and colour #ff0000 for an
\* active contact and of size 8 and colour #888888 for an inactive one.
C32_ElectrodePointsPerContact ==
    ElectrodeBuilderCalled =>
        LET c == traceCall.arg.contacts
            t == traceCall.trace
        IN  /\ (c = Undefined \/ (c # Undefined /\ c.v = <<>>)) => t = Null
            /\ (c # Undefined /\ c.v # <<>> /\ WellFormedContacts(c.v)) =>
                  /\ t # Null
                  /\ t.type = "scatter3d"
                  /\ Len(t.x) = Len(c.v) /\ Len(t.y) = Len(c.v)
                  /\ Len(t.z) = Len(c.v)
                  /\ Len(t.size) = Len(c.v) /\ Len(t.color) = Len(c.v)
                  /\ \A i \in 1..Len(c.v) :
                        /\ <<t.x[i], t.y[i], t.z[i]>> = c.v[i].position.v
                        /\ c.v[i].is_active =>
                              t.size[i] = 12 /\ t.color[i] = "#ff0000"
                        /\ ~c.v[i].is_active =>
                              t.size[i] = 8 /\ t.color[i] = "#888888"

\* three contacts at different places, the second one active, were mapped
C32_Witness ==
    /\ ElectrodeBuilderCalled /\ traceCall.trace # Null
    /\ Len(traceCall.arg.contacts.v) = MaxContacts
    /\ traceCall.trace.size[1] = 8 /\ traceCall.trace.size[2] = 12
    /\ traceCall.trace.z[1] = 7 /\ traceCall.trace.z[2] = 4

\* C33: createTissueTrace returns no trace when x_coords, y_coords, z_coords
\* or tissue_type is missing, and otherwise a trace of opacity 0.3 whatever
\* the data.
C33_TissueTraceLowOpacity ==
    TissueBuilderCalled =>
        LET d == traceCall.arg
            missing == \/ d.x_coords = Undefined \/ d.y_coords = Undefined
                       \/ d.z_coords = Undefined \/ d.tissue_type = Undefined
        IN  /\ missing => traceCall.trace = Null
            /\ ~missing => /\ traceCall.trace # Null
                           /\ traceCall.trace.type = "isosurface"
                           /\ traceCall.trace.opacity = 30

\* a complete tissue record gave a trace, one without z_coords would not
C33_Witness ==
    /\ TissueBuilderCalled /\ traceCall.trace # Null
    /\ traceCall.trace.value = << << <<1>>, <<1>> >> >>
    /\ traceCall.trace.opacity = 30
    /\ CreateTissueTrace([traceCall.arg EXCEPT !.z_coords = Undefined]) = Null

\* C34: while the scene is Initialized and the component is mounted and not
\* showing its loading view, the renderer's canvas is a child of the mount
\* container.
C34_CanvasAttachedWhileInitialized ==
    ( /\ component = "scene" /\ phase = "mounted"
      /\ isInitialized /\ ~isLoading /\ three.rendererRef )
    => three.canvasParent = "mount"

\* a payload renderVisualization can draw: field_data and tissue_data present,
\* tissue_data with its physical_size
CompletePayload(data) ==
    /\ data # Null
    /\ ~MissingDataGuard(data)
    /\ ~Falsy(data.tissue_data.physical_size)

\* C35: whenever (complete) simulation data is present and the component is
\* mounted and not loading, the plot container holds the drawing of the traces
\* built from the current data and ViewState.
C35_PlotShownWheneverDataPresent ==
    ( /\ component = "plot" /\ phase = "mounted" /\ ~isLoading
      /\ CompletePayload(simulationData) )
    => /\ plot.plotRef /\ plot.content = "plot"
       /\ plot.traces = BuildTraces(simulationData, visualizationMode,
                                    showElectrode, fieldThreshold).traces

\* C36: at most one animation-frame request of the scene instance is pending,
\* and animationFrameRef holds the id of the pending request.
C36_SingleAnimationLoop ==
    component = "scene" =>
        /\ Cardinality(three.rafPending) <= 1
        /\ three.rafPending # {} => three.rafPending = {three.animationFrameRef}

\* the loop has run a tick and requested the next frame under a new id
C36_Witness ==
    /\ component = "scene" /\ phase = "mounted"
    /\ three.frame # NoFrame /\ three.smoothSteps = 1
    /\ three.rafPending = {2} /\ three.animationFrameRef = 2

\* C37: a trace createFieldTrace returns for a non-empty field has
\* isomin <= isomax, that is fieldThreshold <= the field's maximum.
C37_IsoRangeNotInverted ==
    (FieldCalled /\ fieldCall.trace # Null) =>
        /\ fieldCall.trace.isomax.finite
        /\ fieldCall.trace.isomin <= fieldCall.trace.isomax.v

(* ------------------ App: simulation runs and TutorialMode ---------------- *)
\* most simulation requests in flight at once
MaxRequests == 2

\* index of the last entry of tutorialSteps
LastStep == 10

\* the component's state after the health check has answered: the main view
\* with the default parameters, no results, no run, no error
AppInit ==
    [ parameters |-> [ frequency |-> DefaultFrequency, amplitude |-> DefaultAmplitude,
                       contact |-> 0, condition |-> "healthy", pulse_width |-> 90 ],
      results |-> Null, isRunning |-> FALSE, error |-> Null,
      requests |-> {},
      showTutorial |-> FALSE, currentStep |-> 0, isSimulationRunning |-> FALSE ]

\* what fetch and the body of the answer can be: the fetch rejected, the
\* status ok or not, the body parseable or not, its success and error fields
Responses ==
    [ rejected : BOOLEAN, ok : BOOLEAN, json : BOOLEAN, success : BOOLEAN,
      error : {"", "Invalid parameters"} ]

ErrorOf(message) == [message |-> message]

\* apiRequest: the data of the answer, or the error it throws
ApiRequest(resp, id) ==
    IF resp.rejected THEN [thrown |-> TRUE, message |-> "Failed to fetch"]
    ELSE IF ~resp.ok
    THEN [thrown |-> TRUE,
          message |-> IF resp.json /\ resp.error # "" THEN resp.error
                      ELSE "HTTP 500: INTERNAL SERVER ERROR"]
    ELSE IF ~resp.json THEN [thrown |-> TRUE, message |-> "Unexpected end of JSON input"]
    ELSE IF ~resp.success /\ resp.error # "" THEN [thrown |-> TRUE, message |-> resp.error]
    ELSE [thrown |-> FALSE,
          data |-> [success |-> resp.success, error |-> resp.error, run |-> id]]

\* TutorialMode's effect, run after every commit while the tutorial is shown
TutorialEffect(a) ==
    IF a.showTutorial /\ a.isSimulationRunning /\ a.results # Null /\ ~a.isRunning
    THEN [a EXCEPT !.isSimulationRunning = FALSE]
    ELSE a

HandleParameterChange(a, parameterName, value) ==
    [a EXCEPT !.parameters[parameterName] = value, !.error = Null]

NewRequest(a) == CHOOSE id \in 1..MaxRequests : id \notin a.requests

\* runSimulation up to its await: the run state is set and the request sent
RunSimulation(a) ==
    [a EXCEPT !.isRunning = TRUE, !.error = Null, !.requests = @ \cup {NewRequest(a)}]

\* runSimulation after its await, for the request id
RunSimulationSettled(a, id, outcome) ==
    IF outcome.thrown
    THEN [a EXCEPT !.error = ErrorOf(IF outcome.message # "" THEN outcome.message
                                      ELSE "Simulation failed"),
                   !.isRunning = FALSE, !.requests = @ \ {id}]
    ELSE [a EXCEPT !.results = outcome.data,
                   !.isRunning = FALSE, !.requests = @ \ {id}]

\* tutorialSteps[step].action
StepAction(a, step) ==
    CASE step = 1 -> HandleParameterChange(a, "condition", "parkinson")
      [] step = 2 -> HandleParameterChange(a, "frequency", 130)
      [] step = 3 -> HandleParameterChange(a, "amplitude", 20)
      [] step = 4 -> HandleParameterChange(a, "contact", 0)
      [] step = 5 -> RunSimulation([a EXCEPT !.isSimulationRunning = TRUE])
      [] OTHER -> a

AppUnchanged == UNCHANGED <<component, phase, isLoading, sceneVars, plotVars,
                            mapper, fieldCall, traceCall>>

InitApp ==
    /\ component = "app"
    /\ phase = "created"
    /\ isLoading = FALSE
    /\ isInitialized = FALSE
    /\ parameters = NoProps
    /\ paramsId = 0
    /\ containerSize = InitialSize
    /\ three = ThreeInit
    /\ simulationData = Null
    /\ dataId = 0
    /\ visualizationMode = "field" /\ showElectrode = TRUE /\ fieldThreshold = 10
    /\ plot = PlotInit
    /\ mapper = MapperInit
    /\ fieldCall = NoCall
    /\ traceCall = NoCall
    /\ app = AppInit

\* the Run Simulation button of ParameterControls, disabled while isRunning
RunButton ==
    /\ component = "app"
    /\ ~app.showTutorial /\ ~app.isRunning
    /\ Cardinality(app.requests) < MaxRequests
    /\ app' = RunSimulation(app)
    /\ AppUnchanged

\* a control of ParameterControls changes one parameter
ParameterChange ==
    /\ component = "app"
    /\ ~app.showTutorial
    /\ \E change \in {<<"frequency", 130>>, <<"frequency", 185>>,
                      <<"condition", "healthy">>} :
           app' = HandleParameterChange(app, change[1], change[2])
    /\ AppUnchanged

\* the button of the error banner
DismissError ==
    /\ component = "app"
    /\ ~app.showTutorial /\ app.error # Null
    /\ app' = [app EXCEPT !.error = Null]
    /\ AppUnchanged

\* the header's Tutorial Mode button: a new TutorialMode is mounted
OpenTutorial ==
    /\ component = "app"
    /\ ~app.showTutorial
    /\ app' = TutorialEffect([app EXCEPT !.showTutorial = TRUE, !.currentStep = 0,
                                         !.isSimulationRunning = FALSE])
    /\ AppUnchanged

\* Skip Tutorial, or Complete Tutorial on the last step: TutorialMode unmounts
OnComplete ==
    /\ component = "app"
    /\ app.showTutorial
    /\ app' = [app EXCEPT !.showTutorial = FALSE, !.currentStep = 0,
                          !.isSimulationRunning = FALSE]
    /\ AppUnchanged

\* the Next button, rendered before the last step, disabled while
\* isSimulationRunning
NextStep ==
    /\ component = "app"
    /\ app.showTutorial /\ app.currentStep # LastStep /\ ~app.isSimulationRunning
    /\ app.currentStep = 5 => Cardinality(app.requests) < MaxRequests
    /\ app' = TutorialEffect(
                 [StepAction(app, app.currentStep) EXCEPT
                     !.currentStep = IF app.currentStep < LastStep
                                     THEN app.currentStep + 1 ELSE app.currentStep])
    /\ AppUnchanged

PrevStep ==
    /\ component = "app"
    /\ app.showTutorial /\ app.currentStep > 0
    /\ app' = TutorialEffect([app EXCEPT !.currentStep = @ - 1])
    /\ AppUnchanged

\* the request of a run is answered and apiRequest returns its data
SimulationResolves ==
    /\ component = "app"
    /\ \E id \in app.requests, resp \in Responses :
           /\ ~ApiRequest(resp, id).thrown
           /\ app' = TutorialEffect(RunSimulationSettled(app, id, ApiRequest(resp, id)))
    /\ AppUnchanged

\* the request of a run fails and apiRequest throws
SimulationRejects ==
    /\ component = "app"
    /\ \E id \in app.requests, resp \in Responses :
           /\ ApiRequest(resp, id).thrown
           /\ app' = TutorialEffect(RunSimulationSettled(app, id, ApiRequest(resp, id)))
    /\ AppUnchanged

NextApp ==
    \/ RunButton
    \/ ParameterChange
    \/ DismissError
    \/ OpenTutorial
    \/ OnComplete
    \/ NextStep
    \/ PrevStep
    \/ SimulationResolves
    \/ SimulationRejects

\* every request sent is answered or fails in the end
SpecApp ==
    InitApp /\ [][NextApp]_vars /\ WF_vars(SimulationResolves \/ SimulationRejects)

\* C38: a run holds the run state until it settles: while a request of
\* runSimulation is in flight isRunning is true, and with none in flight it
\* is false.
C38_RunStateFollowsRequest ==
    component = "app" => (app.isRunning <=> app.requests # {})

\* the tutorial's Next button is disabled by a run the tutorial started
TutorialWaiting == component = "app" /\ app.showTutorial /\ app.isSimulationRunning

\* C39: a tutorial that waits for the run it started stops waiting in the
\* end: isSimulationRunning is reset after the run settles, and Next is
\* enabled again.
C39_NextReenabled == TutorialWaiting ~> ~TutorialWaiting

====
